---- MODULE Spec2Model ----
(***************************************************************************)
(* Model of the Solid device registry (frontend/devicemanager.cpp) on top  *)
(* of the UDisks2 backend's property cache (udisks2/udisksmanager.cpp).    *)
(*                                                                         *)
(* Identifiers and interface names are sequences of path segments, so that *)
(* QString::startsWith is a prefix test.  Property values are records      *)
(* [t, v]: t = "invalid" is the invalid QVariant.                          *)
(***************************************************************************)
EXTENDS Integers, Sequences, FiniteSets, TLC

\* ------------------------------------------------------------------ bounds
MaxSize == 1
MaxRef == 2

\* --------------------------------------------------------------- constants
UD2_DBUS_SERVICE == <<"org.freedesktop.UDisks2">>
UD2_UDI_DISKS_PREFIX == <<"/org/freedesktop/UDisks2">>
UD2_DBUS_PATH_BLOCK_DEVICES == <<"/org/freedesktop/UDisks2", "block_devices">>
UD2_DBUS_PATH_DRIVES == <<"/org/freedesktop/UDisks2", "drives">>
UD2_DBUS_PATH_JOBS == <<"/org/freedesktop/UDisks2", "jobs">>
UD2_DBUS_INTERFACE_BLOCK == <<"org.freedesktop.UDisks2", "Block">>
UD2_DBUS_INTERFACE_FILESYSTEM == <<"org.freedesktop.UDisks2", "Filesystem">>
\* Another interface of the service, the one the comment at line 204 names.
UD2_DBUS_INTERFACE_LOOP == <<"org.freedesktop.UDisks2", "Loop">>
DBUS_INTERFACE_PROPS == <<"org.freedesktop.DBus", "Properties">>

\* The identifiers of the model: an optical drive's block device, a disk,
\* a job object (ignored by the backend), the object manager itself, an
\* identifier of no backend, and the empty identifier.
D1 == <<"/org/freedesktop/UDisks2", "block_devices", "sr0">>
D2 == <<"/org/freedesktop/UDisks2", "block_devices", "sda">>
JobPath == <<"/org/freedesktop/UDisks2", "jobs", "1">>
ManagerPath == <<"/org/freedesktop/UDisks2", "Manager">>
ForeignUdi == <<"/org/kde/fstab", "x">>
EmptyUdi == <<>>

startsWith(s, prefix) ==
    /\ Len(prefix) <= Len(s)
    /\ \A i \in 1..Len(prefix) : s[i] = prefix[i]

\* ------------------------------------------------------------------ values
Invalid == [t |-> "invalid", v |-> 0]
U64(n) == [t |-> "u64", v |-> n]
Bytes(n) == [t |-> "bytes", v |-> n]
Str(n) == [t |-> "str", v |-> n]

isValid(val) == val.t # "invalid"

\* QVariant::toULongLong: a number's value, 0 for what is no number.
toULongLong(val) == IF val.t = "u64" THEN val.v ELSE 0

\* Utils::sanitizeValue turns byte arrays into strings and leaves the rest.
sanitizeValue(val) == IF val.t = "bytes" THEN Str(val.v) ELSE val

sanitizeMap(map) == [k \in DOMAIN map |-> sanitizeValue(map[k])]

\* ------------------------------------------------------------ finite maps
EmptyMap == [k \in {} |-> 0]

contains(map, k) == k \in DOMAIN map

\* QMap::insert / operator[]= : add or overwrite one key.
insert(map, k, val) == [x \in DOMAIN map \cup {k} |-> IF x = k THEN val ELSE map[x]]

\* QMap::remove
remove(map, k) == [x \in DOMAIN map \ {k} |-> map[x]]

\* QMap::value(k): the default-constructed (empty) map for a missing key.
value(map, k) == IF k \in DOMAIN map THEN map[k] ELSE EmptyMap

\* QMap iterates in key order; the interface keys a snapshot can hold are,
\* as strings, ordered as in this list ('/' sorts before 'o').
KeyOrder == <<D1, D2, DBUS_INTERFACE_PROPS, UD2_DBUS_INTERFACE_BLOCK, UD2_DBUS_INTERFACE_FILESYSTEM,
             UD2_DBUS_INTERFACE_LOOP>>

keyRank(k) == CHOOSE i \in 1..Len(KeyOrder) : KeyOrder[i] = k

\* ------------------------------------------------------------------ events
Added(udi) == [kind |-> "added", udi |-> udi, props |-> {}]
Removed(udi) == [kind |-> "removed", udi |-> udi, props |-> {}]
Changed(udi, names) == [kind |-> "changed", udi |-> udi, props |-> names]

\* ---------------------------------------------- UDisks2 backend (Manager)
\* Every operation is a function of the cache and of the replies of the
\* remote service; it yields the new cache, what it returns, the signals it
\* emits in order, and the number of remote calls it made.

\* Manager::allDevices on the reply of GetManagedObjects.
allDevices(reply) ==
    LET kept == {u \in DOMAIN reply.items :
                    startsWith(u, UD2_DBUS_PATH_BLOCK_DEVICES) \/ startsWith(u, UD2_DBUS_PATH_DRIVES)}
        fresh == IF reply.error THEN EmptyMap
                 ELSE [u \in kept |-> [i \in DOMAIN reply.items[u] |-> sanitizeMap(reply.items[u][i])]]
    IN  [cache |-> fresh, result |-> DOMAIN fresh, calls |-> 1]

\* Mutant of deviceCache: a resync on every call.
deviceCache_AlwaysResyncs(cache, reply) ==
    [cache |-> allDevices(reply).cache, calls |-> 1]

\* Manager::deviceCache: a resync when the cache is empty.
deviceCache(cache, reply) ==
    IF DOMAIN cache = {}
        THEN [cache |-> allDevices(reply).cache, calls |-> 1]
        ELSE [cache |-> cache, calls |-> 0]

hasInterface(cache, reply, udi, interface) ==
    LET dc == deviceCache(cache, reply)
    IN  [cache |-> dc.cache, result |-> contains(value(dc.cache, udi), interface), calls |-> dc.calls]

\* Manager::allProperties
allProperties(cache, reply) ==
    LET dc == deviceCache(cache, reply)
    IN  [cache |-> dc.cache, result |-> dc.cache, calls |-> dc.calls]

\* Manager::deviceProperties
deviceProperties(cache, reply, udi) ==
    LET dc == deviceCache(cache, reply)
    IN  [cache |-> dc.cache, result |-> value(dc.cache, udi), calls |-> dc.calls]

\* Manager::createDevice: "root" is the RootDevice, "device" a Device, "null" nullptr.
\* C++ evaluates udi == udiPrefix() first, and deviceCache() only otherwise.
createDevice(cache, reply, udi) ==
    IF udi = UD2_UDI_DISKS_PREFIX
        THEN [cache |-> cache, result |-> "root", calls |-> 0]
        ELSE LET dc == deviceCache(cache, reply)
             IN  [cache |-> dc.cache,
                  result |-> IF contains(dc.cache, udi) THEN "device" ELSE "null",
                  calls |-> dc.calls]

\* The first interface, in key order, of a snapshot that holds property name.
holders(props, name) == {i \in DOMAIN props : contains(props[i], name)}

firstHolder(props, name) ==
    CHOOSE i \in holders(props, name) : \A j \in holders(props, name) : keyRank(i) <= keyRank(j)

\* Mutant of deviceProperty: a name that no interface holds is fetched as well.
deviceProperty_FetchesMissing(cache, udi, name, fetchMode, reply) ==
    LET props == value(cache, udi)
        val == sanitizeValue(IF reply.error THEN Invalid ELSE reply.value)
    IN  IF holders(props, name) = {}
            THEN IF fetchMode = "FetchIfNeeded" /\ contains(cache, udi)
                     THEN [cache |-> cache, result |-> val, calls |-> 1]
                     ELSE [cache |-> cache, result |-> Invalid, calls |-> 0]
            ELSE LET iface == firstHolder(props, name)
                     cached == props[iface][name]
                 IN  IF ~isValid(cached) /\ fetchMode = "FetchIfNeeded"
                         THEN [cache |-> insert(cache, udi, insert(props, iface, insert(props[iface], name, val))),
                               result |-> val, calls |-> 1]
                         ELSE [cache |-> cache, result |-> cached, calls |-> 0]

\* Mutant of deviceProperty: the fetched value is returned and not stored.
deviceProperty_NoStore(cache, udi, name, fetchMode, reply) ==
    LET props == value(cache, udi)
    IN  IF holders(props, name) = {}
            THEN [cache |-> cache, result |-> Invalid, calls |-> 0]
            ELSE LET iface == firstHolder(props, name)
                     cached == props[iface][name]
                 IN  IF ~isValid(cached) /\ fetchMode = "FetchIfNeeded"
                         THEN [cache |-> cache,
                               result |-> sanitizeValue(IF reply.error THEN Invalid ELSE reply.value),
                               calls |-> 1]
                         ELSE [cache |-> cache, result |-> cached, calls |-> 0]

\* Mutant of deviceProperty: an unresolved value is fetched in either mode.
deviceProperty_AlwaysFetches(cache, udi, name, fetchMode, reply) ==
    LET props == value(cache, udi)
    IN  IF holders(props, name) = {}
            THEN [cache |-> cache, result |-> Invalid, calls |-> 0]
            ELSE LET iface == firstHolder(props, name)
                     cached == props[iface][name]
                 IN  IF ~isValid(cached)
                         THEN LET val == sanitizeValue(IF reply.error THEN Invalid ELSE reply.value)
                              IN  [cache |-> insert(cache, udi, insert(props, iface, insert(props[iface], name, val))),
                                   result |-> val, calls |-> 1]
                         ELSE [cache |-> cache, result |-> cached, calls |-> 0]

\* Manager::deviceProperty; reply is the reply of the remote Get.
deviceProperty(cache, udi, name, fetchMode, reply) ==
    LET props == value(cache, udi)
    IN  IF holders(props, name) = {}
            THEN [cache |-> cache, result |-> Invalid, calls |-> 0]
            ELSE LET iface == firstHolder(props, name)
                     cached == props[iface][name]
                 IN  IF ~isValid(cached) /\ fetchMode = "FetchIfNeeded"
                         THEN LET val == sanitizeValue(IF reply.error THEN Invalid ELSE reply.value)
                              IN  [cache |-> insert(cache, udi, insert(props, iface, insert(props[iface], name, val))),
                                   result |-> val, calls |-> 1]
                         ELSE [cache |-> cache, result |-> cached, calls |-> 0]

\* Manager::slotInterfacesAdded; replies[i] is the reply of GetAll(i) for each
\* previously known interface i except Block.
\* Mutant of refetched: a failed GetAll clears the interface's properties.
refetched_ClearsOnError(snapshot, interface, reply) ==
    IF reply.valid
        THEN insert(snapshot, interface, sanitizeMap(reply.value))
        ELSE insert(snapshot, interface, EmptyMap)

\* Lines 218-223: one GetAll and what is stored of its reply.
refetched(snapshot, interface, reply) ==
    IF reply.valid
        THEN insert(snapshot, interface, sanitizeMap(reply.value))
        ELSE snapshot

RECURSIVE refetch(_, _, _)
refetch(snapshot, replies, todo) ==
    IF todo = {} THEN snapshot
    ELSE LET i == CHOOSE x \in todo : TRUE
         IN  refetch(refetched(snapshot, i, replies[i]), replies, todo \ {i})

oldInterfacesOf(cache, udi) == DOMAIN value(cache, udi) \ {UD2_DBUS_INTERFACE_BLOCK}

mergeAdded(snapshot, interfaces_and_properties) ==
    LET kept == {i \in DOMAIN interfaces_and_properties : startsWith(i, UD2_DBUS_SERVICE)}
    IN  [i \in DOMAIN snapshot \cup kept |->
            IF i \in kept THEN sanitizeMap(interfaces_and_properties[i]) ELSE snapshot[i]]

\* Mutant of emitsAdded: the second add of a two-stage appearance is dropped.
emitsAdded_OnlyNew(isNewDevice, interfaces_and_properties) == isNewDevice

emitsAdded(isNewDevice, interfaces_and_properties) ==
    isNewDevice \/ contains(interfaces_and_properties, UD2_DBUS_INTERFACE_FILESYSTEM)

slotInterfacesAdded(cache, udi, interfaces_and_properties, replies) ==
    IF startsWith(udi, UD2_DBUS_PATH_JOBS)
        THEN [cache |-> cache, emitted |-> <<>>, calls |-> 0, failed |-> {}]
        ELSE LET isNewDevice == ~contains(cache, udi)
                 oldInterfaces == oldInterfacesOf(cache, udi)
                 merged == mergeAdded(value(cache, udi), interfaces_and_properties)
                 fetched == refetch(merged, replies, oldInterfaces)
             IN  [cache |-> insert(cache, udi, fetched),
                  emitted |-> IF emitsAdded(isNewDevice, interfaces_and_properties)
                                  THEN <<Added(udi)>> ELSE <<>>,
                  calls |-> Cardinality(oldInterfaces),
                  failed |-> {i \in oldInterfaces : ~replies[i].valid}]

\* Mutant of slotInterfacesRemoved: the emptied entry is kept.
slotInterfacesRemoved_KeepsEntry(cache, udi, interfaces) ==
    IF udi = EmptyUdi \/ startsWith(udi, UD2_DBUS_PATH_JOBS) \/ ~contains(cache, udi)
        THEN [cache |-> cache, emitted |-> <<>>, calls |-> 0]
        ELSE LET left == [i \in DOMAIN cache[udi] \ interfaces |-> cache[udi][i]]
             IN  [cache |-> insert(cache, udi, left),
                  emitted |-> IF DOMAIN left = {} THEN <<Removed(udi)>> ELSE <<Removed(udi), Added(udi)>>,
                  calls |-> 0]

\* Mutant of removedEvents: no re-add after a partial removal.
removedEvents_NoReadd(udi, left) == <<Removed(udi)>>

\* Manager::slotInterfacesRemoved
removedEvents(udi, left) ==
    IF DOMAIN left = {} THEN <<Removed(udi)>> ELSE <<Removed(udi), Added(udi)>>

slotInterfacesRemoved(cache, udi, interfaces) ==
    IF udi = EmptyUdi \/ startsWith(udi, UD2_DBUS_PATH_JOBS) \/ ~contains(cache, udi)
        THEN [cache |-> cache, emitted |-> <<>>, calls |-> 0]
        ELSE LET left == [i \in DOMAIN cache[udi] \ interfaces |-> cache[udi][i]]
             IN  [cache |-> IF DOMAIN left = {} THEN remove(cache, udi) ELSE insert(cache, udi, left),
                  emitted |-> removedEvents(udi, left),
                  calls |-> 0]

\* Device::mightBeOpticalDisc: the removable-media criterion of the heuristic.
mightBeOpticalDisc(udi) == udi = D1

\* Mutant of storeChanges: the invalidated names are written after the
\* changed ones, so a name in both ends up unresolved.
storeChanges_InvalidatedLast(snapshot, iface, changed, invalidated) ==
    IF invalidated = {} /\ DOMAIN changed = {} THEN snapshot
    ELSE LET old == value(snapshot, iface)
             new == [n \in DOMAIN old \cup invalidated \cup DOMAIN changed |->
                        IF n \in invalidated THEN Invalid
                        ELSE IF n \in DOMAIN changed THEN sanitizeValue(changed[n])
                        ELSE old[n]]
         IN  insert(snapshot, iface, new)

\* Manager::slotPropertiesChanged, lines 297-314: the update of a known device.
storeChanges(snapshot, iface, changed, invalidated) ==
    IF invalidated = {} /\ DOMAIN changed = {} THEN snapshot
    ELSE LET old == value(snapshot, iface)
             new == [n \in DOMAIN old \cup invalidated \cup DOMAIN changed |->
                        IF n \in DOMAIN changed THEN sanitizeValue(changed[n])
                        ELSE IF n \in invalidated THEN Invalid
                        ELSE old[n]]
         IN  insert(snapshot, iface, new)

changeMap(changed, invalidated) == invalidated \cup DOMAIN changed

\* Lines 316-339: the media heuristic; known is knownDevice, cache the cache
\* after the update above.
\* Mutant of mediaInserted: a tracked device's size becoming non-zero counts too.
mediaInserted_IgnoresKnown(known, iface, changed) ==
    /\ iface = UD2_DBUS_INTERFACE_BLOCK
    /\ contains(changed, "Size")
    /\ toULongLong(changed["Size"]) > 0

mediaInserted(known, iface, changed) ==
    /\ iface = UD2_DBUS_INTERFACE_BLOCK
    /\ contains(changed, "Size")
    /\ ~known
    /\ toULongLong(changed["Size"]) > 0

mediaRemoved(known, iface, changed) ==
    /\ iface = UD2_DBUS_INTERFACE_BLOCK
    /\ contains(changed, "Size")
    /\ known
    /\ toULongLong(changed["Size"]) = 0

insertedSnapshot(udi, iface, changed) == insert(EmptyMap, udi, changed)

slotPropertiesChanged(cache, udi, nargs, iface, changed, invalidated) ==
    IF udi = EmptyUdi \/ ~startsWith(udi, UD2_UDI_DISKS_PREFIX)
          \/ startsWith(udi, UD2_DBUS_PATH_JOBS) \/ nargs # 3
        THEN [cache |-> cache, emitted |-> <<>>, calls |-> 0]
        ELSE LET knownDevice == contains(cache, udi)
                 updated == IF knownDevice
                                THEN insert(cache, udi, storeChanges(cache[udi], iface, changed, invalidated))
                                ELSE cache
                 first == IF knownDevice /\ changeMap(changed, invalidated) # {}
                              THEN <<Changed(udi, changeMap(changed, invalidated))>>
                              ELSE <<>>
             IN  IF mediaInserted(knownDevice, iface, changed) /\ mightBeOpticalDisc(udi)
                     THEN [cache |-> insert(updated, udi, insertedSnapshot(udi, iface, changed)),
                           emitted |-> first \o <<Added(udi)>>, calls |-> 0]
                 ELSE IF mediaRemoved(knownDevice, iface, changed) /\ mightBeOpticalDisc(udi)
                     THEN [cache |-> remove(updated, udi),
                           emitted |-> first \o <<Removed(udi)>>, calls |-> 0]
                 ELSE [cache |-> updated, emitted |-> first, calls |-> 0]

\* ------------------------------------------- registry (DeviceManagerPrivate)
VARIABLES
    m_cache,        \* Manager::m_cache: udi -> interface -> property -> value
    handles,        \* the live DevicePrivate objects: id -> [udi, backendObject, ref]
    m_devicesMap,   \* udi -> id of its DevicePrivate
    m_reverseMap,   \* id -> udi
    backendEmitted, \* the signals the backend emitted in the last operation, in order
    notified,       \* the signals the registry emitted to its subscribers in it, in order
    last,           \* the last operation: its name, arguments, result, remote calls
    removedNotReadded \* history: the identifiers whose last InterfacesRemoved emptied their
                    \* interface set and for which the backend has emitted no "added" since

vars == <<m_cache, handles, m_devicesMap, m_reverseMap, backendEmitted, notified, last, removedNotReadded>>

\* The handle of the empty identifier (m_nullDevice) is not in the heap.
NullDeviceId == 0

\* The identifiers consumers look up, and an address for each live handle.
FindUdis == {D1, ForeignUdi, EmptyUdi}
HandleIds == 1..Cardinality(FindUdis \ {EmptyUdi})

\* The one backend registered with the registry: the UDisks2 manager.
udiPrefix == UD2_UDI_DISKS_PREFIX

\* Mutant of createBackendObject: the identifier is compared with the prefix
\* for equality.
createBackendObject_ExactPrefix(cache, reply, udi) ==
    IF udi = udiPrefix
        THEN createDevice(cache, reply, udi)
        ELSE [cache |-> cache, result |-> "null", calls |-> 0]

\* DeviceManagerPrivate::createBackendObject: the first backend whose prefix
\* matches decides; a "root" or "device" object is an Ifaces::Device.
createBackendObject(cache, reply, udi) ==
    IF startsWith(udi, udiPrefix)
        THEN createDevice(cache, reply, udi)
        ELSE [cache |-> cache, result |-> "null", calls |-> 0]

freeId(hs) == CHOOSE i \in HandleIds : i \notin DOMAIN hs /\ \A j \in HandleIds : j < i => j \in DOMAIN hs

\* Mutant of findRegisteredDevice: the lookup in m_devicesMap is skipped while
\* an address is free, so that every find makes a new DevicePrivate.
findRegisteredDevice_NoLookup(reg, cache, reply, udi) ==
    IF udi = EmptyUdi
        THEN [reg |-> reg, cache |-> cache, result |-> NullDeviceId, calls |-> 0, created |-> FALSE]
    ELSE IF contains(reg.devicesMap, udi) /\ HandleIds \subseteq DOMAIN reg.handles
        THEN [reg |-> reg, cache |-> cache, result |-> reg.devicesMap[udi], calls |-> 0, created |-> FALSE]
    ELSE LET iface == createBackendObject(cache, reply, udi)
             devData == freeId(reg.handles)
         IN  [reg |-> [handles |-> insert(reg.handles, devData,
                                          [udi |-> udi, backendObject |-> iface.result, ref |-> 0]),
                       devicesMap |-> insert(reg.devicesMap, udi, devData),
                       reverseMap |-> insert(reg.reverseMap, devData, udi)],
              cache |-> iface.cache, result |-> devData, calls |-> iface.calls, created |-> TRUE]

\* Mutant of findRegisteredDevice: an identifier that resolves to no backend
\* object gets the null device and no handle of its own.
findRegisteredDevice_DropsUnresolved(reg, cache, reply, udi) ==
    IF udi = EmptyUdi
        THEN [reg |-> reg, cache |-> cache, result |-> NullDeviceId, calls |-> 0, created |-> FALSE]
    ELSE IF contains(reg.devicesMap, udi)
        THEN [reg |-> reg, cache |-> cache, result |-> reg.devicesMap[udi], calls |-> 0, created |-> FALSE]
    ELSE LET iface == createBackendObject(cache, reply, udi)
             devData == freeId(reg.handles)
         IN  IF iface.result = "null"
                 THEN [reg |-> reg, cache |-> iface.cache, result |-> NullDeviceId,
                       calls |-> iface.calls, created |-> FALSE]
                 ELSE [reg |-> [handles |-> insert(reg.handles, devData,
                                                  [udi |-> udi, backendObject |-> iface.result, ref |-> 0]),
                               devicesMap |-> insert(reg.devicesMap, udi, devData),
                               reverseMap |-> insert(reg.reverseMap, devData, udi)],
                       cache |-> iface.cache, result |-> devData, calls |-> iface.calls, created |-> TRUE]

\* Lines 260-270: the new DevicePrivate for udi, with the backend object
\* iface that createBackendObject returned.
registerDevice(reg, udi, iface) ==
    LET devData == freeId(reg.handles)
    IN  [reg |-> [handles |-> insert(reg.handles, devData,
                                     [udi |-> udi, backendObject |-> iface.result, ref |-> 0]),
                  devicesMap |-> insert(reg.devicesMap, udi, devData),
                  reverseMap |-> insert(reg.reverseMap, devData, udi)],
         cache |-> iface.cache, result |-> devData, calls |-> iface.calls, created |-> TRUE]

\* DeviceManagerPrivate::findRegisteredDevice on registry state
\* reg = [handles, devicesMap, reverseMap]; yields the handle's id.
findRegisteredDevice(reg, cache, reply, udi) ==
    IF udi = EmptyUdi
        THEN [reg |-> reg, cache |-> cache, result |-> NullDeviceId, calls |-> 0, created |-> FALSE]
    ELSE IF contains(reg.devicesMap, udi)
        THEN [reg |-> reg, cache |-> cache, result |-> reg.devicesMap[udi], calls |-> 0, created |-> FALSE]
    ELSE registerDevice(reg, udi, createBackendObject(cache, reply, udi))

\* DeviceManagerPrivate::_k_destroyed
k_destroyed(reg, object) ==
    IF contains(reg.reverseMap, object) /\ reg.reverseMap[object] # EmptyUdi
        THEN [handles |-> reg.handles,
              devicesMap |-> remove(reg.devicesMap, reg.reverseMap[object]),
              reverseMap |-> remove(reg.reverseMap, object)]
        ELSE [handles |-> reg.handles, devicesMap |-> reg.devicesMap,
              reverseMap |-> remove(reg.reverseMap, object)]

setBackendObject(reg, id, object) ==
    [reg EXCEPT !.handles = insert(reg.handles, id, [reg.handles[id] EXCEPT !.backendObject = object])]

NoReply == [error |-> TRUE, items |-> EmptyMap]

\* DeviceManagerPrivate::_k_deviceAdded.  st = [reg, notified, asserts,
\* reresolved]: asserts is whether every Q_ASSERT so far held, reresolved the
\* identifiers re-resolved so far, each with the object it got;
\* cache is the backend's cache when the signal is emitted, which holds udi
\* then, so that createDevice does not resync.
k_deviceAdded(st, cache, udi) ==
    LET has == contains(st.reg.devicesMap, udi)
        dev == IF has THEN st.reg.devicesMap[udi] ELSE NullDeviceId
        resolve == has /\ st.reg.handles[dev].backendObject = "null"
        object == createBackendObject(cache, NoReply, udi).result
    IN  [reg |-> IF resolve THEN setBackendObject(st.reg, dev, object) ELSE st.reg,
         notified |-> Append(st.notified, Added(udi)),
         asserts |-> st.asserts /\ (resolve => object # "null"),
         reresolved |-> IF resolve THEN Append(st.reresolved, [udi |-> udi, object |-> object])
                        ELSE st.reresolved]

\* Mutant of k_deviceRemoved: the handle keeps its backend object.
k_deviceRemoved_KeepsObject(st, udi) ==
    LET has == contains(st.reg.devicesMap, udi)
        dev == IF has THEN st.reg.devicesMap[udi] ELSE NullDeviceId
    IN  [reg |-> st.reg,
         notified |-> Append(st.notified, Removed(udi)),
         asserts |-> st.asserts /\ (has => st.reg.handles[dev].backendObject # "null"),
         reresolved |-> st.reresolved]

\* Mutant of k_deviceRemoved: the removal is re-emitted for known handles only.
k_deviceRemoved_OnlyWithHandle(st, udi) ==
    LET has == contains(st.reg.devicesMap, udi)
        dev == IF has THEN st.reg.devicesMap[udi] ELSE NullDeviceId
    IN  [reg |-> IF has THEN setBackendObject(st.reg, dev, "null") ELSE st.reg,
         notified |-> IF has THEN Append(st.notified, Removed(udi)) ELSE st.notified,
         asserts |-> st.asserts /\ (has => st.reg.handles[dev].backendObject # "null"),
         reresolved |-> st.reresolved]

\* DeviceManagerPrivate::_k_deviceRemoved
k_deviceRemoved(st, udi) ==
    LET has == contains(st.reg.devicesMap, udi)
        dev == IF has THEN st.reg.devicesMap[udi] ELSE NullDeviceId
    IN  [reg |-> IF has THEN setBackendObject(st.reg, dev, "null") ELSE st.reg,
         notified |-> Append(st.notified, Removed(udi)),
         asserts |-> st.asserts /\ (has => st.reg.handles[dev].backendObject # "null"),
         reresolved |-> st.reresolved]

\* Mutant of deliver: propertyChanged is connected as well and re-emitted.
RECURSIVE deliver_AllSignals(_, _, _)
deliver_AllSignals(st, cache, events) ==
    IF events = <<>> THEN st
    ELSE LET e == Head(events)
             next == IF e.kind = "added" THEN k_deviceAdded(st, cache, e.udi)
                     ELSE IF e.kind = "removed" THEN k_deviceRemoved(st, e.udi)
                     ELSE [st EXCEPT !.notified = Append(st.notified, e)]
         IN  deliver_AllSignals(next, cache, Tail(events))

\* The constructor connects deviceAdded and deviceRemoved of every backend,
\* and nothing else: each signal runs its slot synchronously, in order.
RECURSIVE deliver(_, _, _)
deliver(st, cache, events) ==
    IF events = <<>> THEN st
    ELSE LET e == Head(events)
             next == IF e.kind = "added" THEN k_deviceAdded(st, cache, e.udi)
                     ELSE IF e.kind = "removed" THEN k_deviceRemoved(st, e.udi)
                     ELSE st
         IN  deliver(next, cache, Tail(events))

\* The consumer's reference to a handle goes away (~Device): the last one
\* deletes the DevicePrivate, whose destroyed() signal runs _k_destroyed.
deref(reg, id) ==
    IF reg.handles[id].ref = 1
        THEN k_destroyed([reg EXCEPT !.handles = remove(reg.handles, id)], id)
        ELSE [reg EXCEPT !.handles[id].ref = @ - 1]

\* DeviceManagerPrivate::~DeviceManagerPrivate, lines 51-56: the loop over the
\* copy of m_devicesMap, which drops one reference of each handle and deletes
\* the handle whose count reaches zero.
RECURSIVE derefAll(_, _)
derefAll(reg, ids) ==
    IF ids = {} THEN reg
    ELSE LET id == CHOOSE x \in ids : TRUE
         IN  derefAll(deref(reg, id), ids \ {id})

\* DeviceManagerPrivate::~DeviceManagerPrivate
destructor(reg) ==
    [derefAll(reg, {reg.devicesMap[udi] : udi \in DOMAIN reg.devicesMap}) EXCEPT !.devicesMap = EmptyMap]

\* ------------------------------------------------------------------ queries
\* Manager::m_supportedInterfaces, in the order std::sort gives the types.
m_supportedInterfaces ==
    <<"GenericInterface", "Block", "StorageAccess", "StorageDrive", "OpticalDrive", "StorageVolume", "OpticalDisc">>

supportedInterfaces == {m_supportedInterfaces[i] : i \in DOMAIN m_supportedInterfaces}

\* Solid::Predicate::fromString: a predicate is its validity, the device
\* types it tests and whether AND or OR joins the tests; a string outside
\* the grammar gives the invalid predicate.
fromString(predicate) ==
    IF predicate = "IS Block" THEN [valid |-> TRUE, types |-> {"Block"}, all |-> FALSE]
    ELSE IF predicate = "IS Block OR IS StorageAccess"
        THEN [valid |-> TRUE, types |-> {"Block", "StorageAccess"}, all |-> FALSE]
    ELSE IF predicate = "IS Block AND IS StorageAccess"
        THEN [valid |-> TRUE, types |-> {"Block", "StorageAccess"}, all |-> TRUE]
    ELSE IF predicate = "IS Camera" THEN [valid |-> TRUE, types |-> {"Camera"}, all |-> FALSE]
    ELSE [valid |-> FALSE, types |-> {}, all |-> FALSE]

usedTypes(p) == IF p.valid THEN p.types ELSE {}

\* UDisks2 Device::queryDeviceInterface on the cached interfaces of udi.
queryDeviceInterface(cache, udi, type) ==
    IF type = "GenericInterface" THEN TRUE
    ELSE IF type \in {"Block", "StorageVolume"} THEN contains(value(cache, udi), UD2_DBUS_INTERFACE_BLOCK)
    ELSE IF type = "StorageAccess" THEN contains(value(cache, udi), UD2_DBUS_INTERFACE_FILESYSTEM)
    ELSE FALSE

\* UDisks2 Device::parentUdi: no device of the model has a drive.
parentUdiOf(udi) == UD2_UDI_DISKS_PREFIX

\* QMap::keys: the keys in their order.
RECURSIVE keysFrom(_, _)
keysFrom(S, i) ==
    IF i > Len(KeyOrder) THEN <<>>
    ELSE (IF KeyOrder[i] \in S THEN <<KeyOrder[i]>> ELSE <<>>) \o keysFrom(S, i + 1)

keys(m) == keysFrom(DOMAIN m, 1)

\* Manager::devicesFromQuery, lines 122-144: the selection among the
\* identifiers of the cache dc that deviceCache() returned.
selectDevices(dc, parentUdi, type) ==
    LET devices == keys(dc.cache)
        ofType(udi) == queryDeviceInterface(dc.cache, udi, type)
        ofParent(udi) == ofType(udi) /\ parentUdiOf(udi) = parentUdi
    IN  [cache |-> dc.cache,
         result |-> IF parentUdi # EmptyUdi THEN SelectSeq(devices, ofParent)
                    ELSE IF type # "Unknown" THEN SelectSeq(devices, ofType)
                    ELSE devices,
         calls |-> dc.calls]

\* Manager::devicesFromQuery
devicesFromQuery(cache, reply, parentUdi, type) ==
    selectDevices(deviceCache(cache, reply), parentUdi, type)

\* Device::listFromQuery(Predicate), the loop over the sorted types.
RECURSIVE collect(_, _, _, _)
RECURSIVE collectMore(_, _, _, _)
collect(cache, reply, parentUdi, types) ==
    IF types = <<>> THEN [cache |-> cache, result |-> <<>>, calls |-> 0, enumerated |-> 0]
    ELSE collectMore(devicesFromQuery(cache, reply, parentUdi, Head(types)), reply, parentUdi, types)

\* Line 142: q, the candidates of the first type, before those of the others.
collectMore(q, reply, parentUdi, types) ==
    LET rest == collect(q.cache, reply, parentUdi, Tail(types))
    IN  [cache |-> rest.cache, result |-> q.result \o rest.result,
         calls |-> q.calls + rest.calls, enumerated |-> 1 + rest.enumerated]

\* Solid::Predicate::matches on a handle: a handle without a backend object
\* has no device interface.
matches(p, reg, cache, dev) ==
    /\ reg.handles[dev].backendObject # "null"
    /\ IF p.all THEN \A type \in p.types : queryDeviceInterface(cache, reg.handles[dev].udi, type)
                ELSE \E type \in p.types : queryDeviceInterface(cache, reg.handles[dev].udi, type)

\* Mutant of evaluate: every candidate is kept, matching or not.
RECURSIVE evaluate_KeepsAll(_, _, _, _, _, _)
evaluate_KeepsAll(reg, cache, reply, p, udis, seen) ==
    IF udis = <<>> THEN [reg |-> reg, cache |-> cache, list |-> <<>>, calls |-> 0]
    ELSE IF Head(udis) \in seen THEN evaluate_KeepsAll(reg, cache, reply, p, Tail(udis), seen)
    ELSE LET udi == Head(udis)
             found == findRegisteredDevice(reg, cache, reply, udi)
             dev == found.result
             held == [found.reg EXCEPT !.handles[dev].ref = @ + 1]
             rest == evaluate_KeepsAll(held, found.cache, reply, p, Tail(udis), seen \cup {udi})
         IN  [reg |-> rest.reg, cache |-> rest.cache, list |-> <<udi>> \o rest.list,
              calls |-> found.calls + rest.calls]

\* Mutant of evaluate: no candidate is skipped as seen.
RECURSIVE evaluate_NoSeen(_, _, _, _, _, _)
evaluate_NoSeen(reg, cache, reply, p, udis, seen) ==
    IF udis = <<>> THEN [reg |-> reg, cache |-> cache, list |-> <<>>, calls |-> 0]
    ELSE LET udi == Head(udis)
             found == findRegisteredDevice(reg, cache, reply, udi)
             dev == found.result
             held == [found.reg EXCEPT !.handles[dev].ref = @ + 1]
             matched == IF ~p.valid THEN TRUE ELSE matches(p, held, found.cache, dev)
             rest == evaluate_NoSeen(IF matched THEN held ELSE deref(held, dev), found.cache, reply, p,
                                     Tail(udis), seen \cup {udi})
         IN  [reg |-> rest.reg, cache |-> rest.cache,
              list |-> (IF matched THEN <<udi>> ELSE <<>>) \o rest.list,
              calls |-> found.calls + rest.calls]

\* Device::listFromQuery(Predicate), the loop over one backend's candidates
\* with its own seen set: Device dev(udi) holds a reference, which the list
\* takes over on a match.
RECURSIVE evaluate(_, _, _, _, _, _)
RECURSIVE evaluateDevice(_, _, _, _, _)
evaluate(reg, cache, reply, p, udis, seen) ==
    IF udis = <<>> THEN [reg |-> reg, cache |-> cache, list |-> <<>>, calls |-> 0]
    ELSE IF Head(udis) \in seen THEN evaluate(reg, cache, reply, p, Tail(udis), seen)
    ELSE evaluateDevice(findRegisteredDevice(reg, cache, reply, Head(udis)), reply, p, udis, seen)

\* Lines 153-166, the body of the loop for a candidate not seen yet; found is
\* what Device dev(udi) got from findRegisteredDevice.
evaluateDevice(found, reply, p, udis, seen) ==
    LET udi == Head(udis)
        dev == found.result
        held == [found.reg EXCEPT !.handles[dev].ref = @ + 1]
        matched == IF ~p.valid THEN TRUE ELSE matches(p, held, found.cache, dev)
        rest == evaluate(IF matched THEN held ELSE deref(held, dev), found.cache, reply, p,
                         Tail(udis), seen \cup {udi})
    IN  [reg |-> rest.reg, cache |-> rest.cache,
         list |-> (IF matched THEN <<udi>> ELSE <<>>) \o rest.list,
         calls |-> found.calls + rest.calls]

\* QSet::intersect changes supportedTypes in place, so that sortedTypes are
\* the backend's types among the predicate's, sorted.
sortedTypes(supported, used) ==
    LET isUsed(type) == type \in used
    IN  SelectSeq(supported, isUsed)

\* Lines 132-146: the candidates udis of the one backend.
candidates(cache, reply, p, parentUdi) ==
    LET resync == allDevices(reply)
    IN  IF p.valid
            THEN collect(cache, reply, parentUdi, sortedTypes(m_supportedInterfaces, usedTypes(p)))
            ELSE [cache |-> resync.cache, result |-> keys(resync.cache),
                  calls |-> resync.calls, enumerated |-> 1]

\* The outcome of a backend's turn: its candidates udis, evaluated as ev.
backendTurn(udis, ev) ==
    [reg |-> ev.reg, cache |-> ev.cache, list |-> ev.list,
     calls |-> udis.calls + ev.calls, enumerated |-> udis.enumerated]

\* Lines 148-167 on the candidates udis.
evaluateCandidates(reg, reply, p, udis) ==
    backendTurn(udis, evaluate(reg, udis.cache, reply, p, udis.result, {}))

\* Device::listFromQuery(const Predicate &, const QString &) with the one backend.
listFromQueryPredicate(reg, cache, reply, p, parentUdi) ==
    IF p.valid /\ supportedInterfaces \cap usedTypes(p) = {}
        THEN [reg |-> reg, cache |-> cache, list |-> <<>>, calls |-> 0, enumerated |-> 0]
        ELSE evaluateCandidates(reg, reply, p, candidates(cache, reply, p, parentUdi))

\* A second registered backend, after the UDisks2 one: what is known of it is
\* its capability set and the candidates it returns to a query.
otherSupportedInterfaces == {"Block", "StorageAccess"}

\* Device::listFromQuery(const Predicate &, const QString &) with the two
\* backends: each backend's candidates go through the loop with a seen set
\* of their own, into the one list.
otherSkipped(p) == p.valid /\ otherSupportedInterfaces \cap usedTypes(p) = {}

\* The one list after both turns: first is the UDisks2 backend's, second the
\* other backend's.
appended(first, second, p) ==
    [reg |-> second.reg, cache |-> second.cache, list |-> first.list \o second.list,
     calls |-> first.calls + second.calls,
     enumerated |-> first.enumerated + (IF otherSkipped(p) THEN 0 ELSE 1)]

\* The second backend's turn, after the first.
otherBackend(first, reply, p, other) ==
    appended(first,
             IF otherSkipped(p)
                 THEN [reg |-> first.reg, cache |-> first.cache, list |-> <<>>, calls |-> 0]
                 ELSE evaluate(first.reg, first.cache, reply, p, other, {}),
             p)

listFromQueryBackends(reg, cache, reply, p, parentUdi, other) ==
    otherBackend(listFromQueryPredicate(reg, cache, reply, p, parentUdi), reply, p, other)

\* Mutant of listFromQuery: the parsed predicate is used without the validity test.
listFromQuery_NoValidityTest(reg, cache, reply, predicate, parentUdi) ==
    listFromQueryPredicate(reg, cache, reply, fromString(predicate), parentUdi)

\* Device::listFromQuery(const QString &, const QString &)
listFromQuery(reg, cache, reply, predicate, parentUdi) ==
    LET p == fromString(predicate)
    IN  IF p.valid
            THEN listFromQueryPredicate(reg, cache, reply, p, parentUdi)
            ELSE [reg |-> reg, cache |-> cache, list |-> <<>>, calls |-> 0, enumerated |-> 0]

\* ------------------------------------------------------------------ inputs
\* What the remote service can send: property maps per interface.
Sizes == {0, MaxSize}

BlockMaps == {("Size" :> U64(n)) : n \in Sizes}

FilesystemMaps == {("MountPoints" :> Bytes(0)), ("Size" :> U64(MaxSize)) @@ ("MountPoints" :> Bytes(0))}

AddedMaps(udi) ==
    IF udi = D1
        THEN {(UD2_DBUS_INTERFACE_BLOCK :> b) : b \in BlockMaps}
             \cup {(UD2_DBUS_INTERFACE_FILESYSTEM :> f) : f \in FilesystemMaps}
             \cup {(UD2_DBUS_INTERFACE_BLOCK :> b) @@ (UD2_DBUS_INTERFACE_FILESYSTEM :> f) :
                      b \in {("Size" :> U64(MaxSize))}, f \in FilesystemMaps}
             \cup {(DBUS_INTERFACE_PROPS :> EmptyMap)}
        ELSE {(UD2_DBUS_INTERFACE_BLOCK :> ("Size" :> U64(MaxSize)))}

\* Replies of GetAll(interface): an error, or the interface's properties.
GetAllReplies(interface) ==
    {[valid |-> FALSE, value |-> EmptyMap]}
    \cup (IF interface = UD2_DBUS_INTERFACE_FILESYSTEM
             THEN {[valid |-> TRUE, value |-> ("MountPoints" :> Bytes(0))]}
          ELSE IF interface = UD2_DBUS_INTERFACE_LOOP
             THEN {[valid |-> TRUE, value |-> ("BackingFile" :> Bytes(1))]}
             ELSE {})

\* Signals about a device that also is a loop device: the property map of
\* Loop in a signal differs from the one GetAll returns.
LoopMap == ("BackingFile" :> Bytes(0))

LoopAddedMaps ==
    {(UD2_DBUS_INTERFACE_BLOCK :> ("Size" :> U64(MaxSize))),
     (UD2_DBUS_INTERFACE_LOOP :> LoopMap)}
    \cup {(UD2_DBUS_INTERFACE_FILESYSTEM :> f) : f \in FilesystemMaps}
    \cup {(UD2_DBUS_INTERFACE_FILESYSTEM :> f) @@ (UD2_DBUS_INTERFACE_LOOP :> LoopMap) : f \in FilesystemMaps}

LoopRemovedSets ==
    {{UD2_DBUS_INTERFACE_FILESYSTEM},
     {UD2_DBUS_INTERFACE_BLOCK, UD2_DBUS_INTERFACE_FILESYSTEM, UD2_DBUS_INTERFACE_LOOP}}

RemovedSets ==
    {{UD2_DBUS_INTERFACE_BLOCK}, {UD2_DBUS_INTERFACE_FILESYSTEM},
     {UD2_DBUS_INTERFACE_BLOCK, UD2_DBUS_INTERFACE_FILESYSTEM}}

ChangedMaps(udi, iface) ==
    IF udi = D2 THEN {("Size" :> U64(0)), ("Size" :> U64(MaxSize))}
    ELSE IF iface = UD2_DBUS_INTERFACE_BLOCK THEN {EmptyMap} \cup BlockMaps
    ELSE {EmptyMap, ("MountPoints" :> Bytes(0))}

InvalidatedSets(udi, iface) ==
    IF udi = D2 THEN {{}}
    ELSE IF iface = UD2_DBUS_INTERFACE_BLOCK THEN {{}, {"Size"}}
    ELSE {{}, {"Size"}, {"MountPoints"}}

ChangedInterfaces(udi) ==
    IF udi = D1 THEN {UD2_DBUS_INTERFACE_BLOCK, UD2_DBUS_INTERFACE_FILESYSTEM}
    ELSE {UD2_DBUS_INTERFACE_BLOCK}

\* Replies of Get(interface, name): an error, or the value.
GetReplies(name) ==
    {[error |-> TRUE, value |-> Invalid]}
    \cup (IF name = "Size" THEN {[error |-> FALSE, value |-> U64(n)] : n \in Sizes}
          ELSE {[error |-> FALSE, value |-> Bytes(0)]})

\* Replies of GetManagedObjects.
DiskObject == (UD2_DBUS_INTERFACE_BLOCK :> ("Size" :> U64(MaxSize)))

ManagedReplies ==
    {NoReply,
     [error |-> FALSE, items |-> EmptyMap],
     [error |-> FALSE, items |-> (D2 :> DiskObject) @@ (ManagerPath :> EmptyMap)],
     [error |-> FALSE, items |-> (D1 :> (UD2_DBUS_INTERFACE_BLOCK :> ("Size" :> U64(0)))) @@ (D2 :> DiskObject)],
     [error |-> FALSE, items |-> (D1 :> ((UD2_DBUS_INTERFACE_BLOCK :> ("Size" :> U64(MaxSize)))
                                           @@ (UD2_DBUS_INTERFACE_FILESYSTEM :> ("MountPoints" :> Bytes(0)))))]}

\* The reply a lookup through deviceCache() consumes: one only when the cache is empty.
ResyncReplies(cache) == IF DOMAIN cache = {} THEN ManagedReplies ELSE {NoReply}

EventUdis == {D1, D2, JobPath}
RegistryUdis == {D1, D2}
PropertyNames == {"Size", "MountPoints"}
PredicateStrings == {"IS Block AND IS StorageAccess", "IS Block OR IS StorageAccess", "IS Camera", "", "IS"}
ParentUdis == {EmptyUdi, UD2_UDI_DISKS_PREFIX}
OtherCandidates == {<<D1>>, <<D2, D1, D2>>}
FetchModes == {"CachedOnly", "FetchIfNeeded"}

\* The coarser inputs of the registry's specification: one property map per
\* interface, and size changes on the Block interface only.
RegistryAddedMaps(udi) ==
    IF udi = D1
        THEN {(UD2_DBUS_INTERFACE_BLOCK :> ("Size" :> U64(MaxSize))),
              (UD2_DBUS_INTERFACE_FILESYSTEM :> ("MountPoints" :> Bytes(0))),
              (UD2_DBUS_INTERFACE_BLOCK :> ("Size" :> U64(MaxSize)))
                  @@ (UD2_DBUS_INTERFACE_FILESYSTEM :> ("MountPoints" :> Bytes(0)))}
        ELSE {(UD2_DBUS_INTERFACE_BLOCK :> ("Size" :> U64(MaxSize)))}

RegistryChangedMaps == {("Size" :> U64(0)), ("Size" :> U64(MaxSize))}

\* ----------------------------------------------------------------- actions
registry == [handles |-> handles, devicesMap |-> m_devicesMap, reverseMap |-> m_reverseMap]

Op(op, udi) ==
    [op |-> op, udi |-> udi, name |-> "", mode |-> "", result |-> Invalid, id |-> NullDeviceId,
     object |-> "none", calls |-> 0, known |-> contains(m_cache, udi), created |-> FALSE, asserts |-> TRUE,
     list |-> <<>>, enumerated |-> 0, reresolved |-> <<>>, failed |-> {}]

\* A backend operation that emits signals: the registry's slots run on each.
BackendEvent(op, udi, out) ==
    LET st == deliver([reg |-> registry, notified |-> <<>>, asserts |-> TRUE, reresolved |-> <<>>],
                      out.cache, out.emitted)
    IN  /\ m_cache' = out.cache
        /\ handles' = st.reg.handles
        /\ m_devicesMap' = st.reg.devicesMap
        /\ m_reverseMap' = st.reg.reverseMap
        /\ backendEmitted' = out.emitted
        /\ notified' = st.notified
        /\ last' = [Op(op, udi) EXCEPT !.calls = out.calls, !.asserts = st.asserts,
                                         !.reresolved = st.reresolved,
                                         !.failed = IF "failed" \in DOMAIN out THEN out.failed ELSE {}]
        /\ removedNotReadded' =
              IF \E i \in 1..Len(out.emitted) : out.emitted[i] = Added(udi)
                  THEN removedNotReadded \ {udi}
              ELSE IF op = "InterfacesRemoved" /\ out.emitted = <<Removed(udi)>>
                  THEN removedNotReadded \cup {udi}
              ELSE removedNotReadded

InterfacesAdded(udi, interfaces_and_properties) ==
    \E replies \in [oldInterfacesOf(m_cache, udi) -> UNION {GetAllReplies(i) : i \in oldInterfacesOf(m_cache, udi)}] :
        /\ \A i \in DOMAIN replies : replies[i] \in GetAllReplies(i)
        /\ BackendEvent("InterfacesAdded", udi,
                        slotInterfacesAdded(m_cache, udi, interfaces_and_properties, replies))

InterfacesRemoved(udi, interfaces) ==
    BackendEvent("InterfacesRemoved", udi, slotInterfacesRemoved(m_cache, udi, interfaces))

PropertiesChanged(udi, nargs, iface, changed, invalidated) ==
    BackendEvent("PropertiesChanged", udi,
                 slotPropertiesChanged(m_cache, udi, nargs, iface, changed, invalidated))

\* Manager::deviceProperty, as Device::prop calls it.
DeviceProperty(udi, name, fetchMode) ==
    \E reply \in GetReplies(name) :
        LET out == deviceProperty(m_cache, udi, name, fetchMode, reply)
        IN  /\ (out.calls = 0 => reply.error)
            /\ m_cache' = out.cache
            /\ backendEmitted' = <<>>
            /\ notified' = <<>>
            /\ last' = [Op("deviceProperty", udi) EXCEPT !.name = name, !.mode = fetchMode,
                                                         !.result = out.result, !.calls = out.calls]
            /\ UNCHANGED <<handles, m_devicesMap, m_reverseMap, removedNotReadded>>

\* Manager::createDevice, as a backend operation of its own.
CreateDevice(udi) ==
    \E reply \in ResyncReplies(m_cache) :
        LET out == createDevice(m_cache, reply, udi)
        IN  /\ (out.calls = 0 => reply = NoReply)
            /\ m_cache' = out.cache
            /\ backendEmitted' = <<>>
            /\ notified' = <<>>
            /\ last' = [Op("createDevice", udi) EXCEPT !.object = out.result, !.calls = out.calls]
            /\ UNCHANGED <<handles, m_devicesMap, m_reverseMap, removedNotReadded>>

\* Device::Device(udi): findRegisteredDevice, and the consumer's reference.
Find(udi) ==
    \E reply \in ResyncReplies(m_cache) :
        LET out == findRegisteredDevice(registry, m_cache, reply, udi)
            dev == out.result
        IN  /\ contains(m_devicesMap, udi) => handles[m_devicesMap[udi]].ref < MaxRef
            /\ (out.calls = 0 => reply = NoReply)
            /\ m_cache' = out.cache
            /\ handles' = IF dev = NullDeviceId THEN out.reg.handles
                          ELSE [out.reg.handles EXCEPT ![dev].ref = @ + 1]
            /\ m_devicesMap' = out.reg.devicesMap
            /\ m_reverseMap' = out.reg.reverseMap
            /\ backendEmitted' = <<>>
            /\ notified' = <<>>
            /\ last' = [Op("find", udi) EXCEPT !.id = dev, !.calls = out.calls, !.created = out.created,
                                              !.object = IF dev = NullDeviceId THEN "null"
                                                         ELSE out.reg.handles[dev].backendObject]
            /\ UNCHANGED removedNotReadded

\* Device::~Device: the consumer drops a reference.
Release(id) ==
    /\ id \in DOMAIN handles
    /\ LET reg == deref(registry, id)
       IN  /\ handles' = reg.handles
           /\ m_devicesMap' = reg.devicesMap
           /\ m_reverseMap' = reg.reverseMap
    /\ backendEmitted' = <<>>
    /\ notified' = <<>>
    /\ last' = [Op("release", handles[id].udi) EXCEPT !.id = id]
    /\ UNCHANGED <<m_cache, removedNotReadded>>

\* A read operation of the backend, called on its own: out is its outcome.
Read(op, udi, reply, out) ==
    /\ (out.calls = 0 => reply = NoReply)
    /\ m_cache' = out.cache
    /\ backendEmitted' = <<>>
    /\ notified' = <<>>
    /\ last' = [Op(op, udi) EXCEPT !.calls = out.calls]
    /\ UNCHANGED <<handles, m_devicesMap, m_reverseMap, removedNotReadded>>

HasInterface(udi, interface) ==
    \E reply \in ManagedReplies :
        Read("hasInterface", udi, reply, hasInterface(m_cache, reply, udi, interface))

AllProperties ==
    \E reply \in ManagedReplies :
        Read("allProperties", EmptyUdi, reply, allProperties(m_cache, reply))

DeviceProperties(udi) ==
    \E reply \in ManagedReplies :
        Read("deviceProperties", udi, reply, deviceProperties(m_cache, reply, udi))

DevicesFromQuery(parentUdi, type) ==
    \E reply \in ManagedReplies :
        Read("devicesFromQuery", parentUdi, reply, devicesFromQuery(m_cache, reply, parentUdi, type))

\* The registry is destroyed, with its thread.
Teardown ==
    /\ LET reg == destructor(registry)
       IN  /\ handles' = reg.handles
           /\ m_devicesMap' = reg.devicesMap
           /\ m_reverseMap' = reg.reverseMap
    /\ backendEmitted' = <<>>
    /\ notified' = <<>>
    /\ last' = Op("teardown", EmptyUdi)
    /\ UNCHANGED <<m_cache, removedNotReadded>>

\* Manager::allDevices, the full resync.
AllDevices ==
    \E reply \in ManagedReplies :
        /\ m_cache' = allDevices(reply).cache
        /\ backendEmitted' = <<>>
        /\ notified' = <<>>
        /\ last' = [Op("allDevices", EmptyUdi) EXCEPT !.calls = 1]
        /\ UNCHANGED <<handles, m_devicesMap, m_reverseMap, removedNotReadded>>

\* A query's outcome: the list's handles stay with the consumer.
Queried(op, predicate, parentUdi, reply, out) ==
    /\ \A id \in DOMAIN handles : handles[id].ref < MaxRef
    /\ (out.calls = 0 => reply = NoReply)
    /\ m_cache' = out.cache
    /\ handles' = out.reg.handles
    /\ m_devicesMap' = out.reg.devicesMap
    /\ m_reverseMap' = out.reg.reverseMap
    /\ backendEmitted' = <<>>
    /\ notified' = <<>>
    /\ last' = [Op(op, parentUdi) EXCEPT !.name = predicate, !.list = out.list,
                                         !.calls = out.calls, !.enumerated = out.enumerated]
    /\ UNCHANGED removedNotReadded

\* Device::listFromQuery with a predicate string.
ListFromQuery(predicate, parentUdi) ==
    \E reply \in ResyncReplies(m_cache) :
        Queried("listFromQuery", predicate, parentUdi, reply,
                listFromQuery(registry, m_cache, reply, predicate, parentUdi))

\* Device::listFromQuery with a predicate object, the default-constructed
\* (invalid) one included.
ListFromQueryPredicate(predicate, parentUdi) ==
    \E reply \in ManagedReplies :
        Queried("listFromQueryPredicate", predicate, parentUdi, reply,
                listFromQueryPredicate(registry, m_cache, reply, fromString(predicate), parentUdi))

\* Device::listFromQuery with a predicate object and a second backend that
\* returns the candidates other.
ListFromQueryBackends(predicate, parentUdi, other) ==
    \E reply \in ManagedReplies :
        Queried("listFromQueryBackends", predicate, parentUdi, reply,
                listFromQueryBackends(registry, m_cache, reply, fromString(predicate), parentUdi, other))

Init ==
    /\ m_cache = EmptyMap
    /\ handles = EmptyMap
    /\ m_devicesMap = EmptyMap
    /\ m_reverseMap = EmptyMap
    /\ backendEmitted = <<>>
    /\ notified = <<>>
    /\ last = [op |-> "init", udi |-> EmptyUdi, name |-> "", mode |-> "", result |-> Invalid,
               id |-> NullDeviceId, object |-> "none", calls |-> 0, known |-> FALSE, created |-> FALSE,
               asserts |-> TRUE, list |-> <<>>, enumerated |-> 0, reresolved |-> <<>>,
               failed |-> {}]
    /\ removedNotReadded = {}

\* The backend's events with the registry's coarser inputs.
RegistryEvents ==
    \/ \E udi \in RegistryUdis : \E m \in RegistryAddedMaps(udi) : InterfacesAdded(udi, m)
    \/ \E udi \in RegistryUdis : \E S \in RemovedSets : InterfacesRemoved(udi, S)
    \/ \E udi \in RegistryUdis : \E changed \in RegistryChangedMaps :
          PropertiesChanged(udi, 3, UD2_DBUS_INTERFACE_BLOCK, changed, {})

\* The registry with its consumers, on top of the backend.
Next ==
    \/ RegistryEvents
    \/ \E udi \in FindUdis : Find(udi)
    \/ \E id \in HandleIds : Release(id)
    \/ \E udi \in {D1, D2, UD2_UDI_DISKS_PREFIX} : CreateDevice(udi)
    \/ AllDevices

Spec == Init /\ [][Next]_vars

\* The backend's property cache alone, with every input of the model; no
\* consumer holds a handle, and the cache code never reads the registry.
NextCache ==
    \/ \E udi \in EventUdis : \E m \in AddedMaps(udi) : InterfacesAdded(udi, m)
    \/ \E udi \in EventUdis : \E S \in RemovedSets : InterfacesRemoved(udi, S)
    \/ \E udi \in EventUdis : \E iface \in ChangedInterfaces(udi) :
          \E changed \in ChangedMaps(udi, iface) : \E invalidated \in InvalidatedSets(udi, iface) :
              PropertiesChanged(udi, 3, iface, changed, invalidated)
    \/ \E udi \in {D1, D2} : \E name \in PropertyNames : \E mode \in FetchModes :
          DeviceProperty(udi, name, mode)
    \/ \E udi \in {D1, D2, UD2_UDI_DISKS_PREFIX} : CreateDevice(udi)
    \/ AllDevices

SpecCache == Init /\ [][NextCache]_vars

\* The backend's read operations, between its changes of composition and
\* its resyncs.
ReadUdiSet == {D1, D2, UD2_UDI_DISKS_PREFIX}

NextReads ==
    \/ \E udi \in RegistryUdis : \E m \in RegistryAddedMaps(udi) : InterfacesAdded(udi, m)
    \/ \E udi \in RegistryUdis : \E S \in RemovedSets : InterfacesRemoved(udi, S)
    \/ AllDevices
    \/ \E udi \in ReadUdiSet : \E interface \in {UD2_DBUS_INTERFACE_BLOCK, UD2_DBUS_INTERFACE_FILESYSTEM} :
          HasInterface(udi, interface)
    \/ AllProperties
    \/ \E udi \in ReadUdiSet : DeviceProperties(udi)
    \/ \E udi \in ReadUdiSet : CreateDevice(udi)
    \/ \E parentUdi \in ParentUdis : \E type \in {"Block", "StorageAccess", "Unknown"} :
          DevicesFromQuery(parentUdi, type)

SpecReads == Init /\ [][NextReads]_vars

\* The life of the registry and of its handles: nothing runs on a registry
\* that is destroyed.
Alive == last.op # "teardown"

NextLifetime ==
    \/ \E udi \in RegistryUdis : \E m \in RegistryAddedMaps(udi) : Alive /\ InterfacesAdded(udi, m)
    \/ \E udi \in RegistryUdis : \E S \in RemovedSets : Alive /\ InterfacesRemoved(udi, S)
    \/ \E udi \in FindUdis : Alive /\ Find(udi)
    \/ \E id \in HandleIds : Alive /\ Release(id)
    \/ Alive /\ Teardown

SpecLifetime == Init /\ [][NextLifetime]_vars

\* The changes of composition of devices with three interfaces, two of them
\* re-fetched by slotInterfacesAdded.
NextRefetch ==
    \/ \E udi \in RegistryUdis : \E m \in LoopAddedMaps : InterfacesAdded(udi, m)
    \/ \E udi \in RegistryUdis : \E S \in LoopRemovedSets : InterfacesRemoved(udi, S)

SpecRefetch == Init /\ [][NextRefetch]_vars

\* The registry's queries, on top of the backend's changes of composition
\* (no query of the model reads a property's value).
NextQuery ==
    \/ \E udi \in RegistryUdis : \E m \in RegistryAddedMaps(udi) : InterfacesAdded(udi, m)
    \/ \E udi \in RegistryUdis : \E S \in RemovedSets : InterfacesRemoved(udi, S)
    \/ \E predicate \in PredicateStrings : \E parentUdi \in ParentUdis : ListFromQuery(predicate, parentUdi)
    \/ \E parentUdi \in ParentUdis : ListFromQueryPredicate("", parentUdi)
    \/ \E predicate \in {"IS Block", ""} : \E other \in OtherCandidates :
          ListFromQueryBackends(predicate, EmptyUdi, other)
    \/ \E id \in HandleIds : Release(id)

SpecQuery == Init /\ [][NextQuery]_vars

\* ------------------------------------------------------------------ claims

\* The step is operation op on udi.  Every action records both in last, so
\* that Step(op, udi) follows from the action and is only the cheaper test
\* to make first.
Step(op, udi) == last'.op = op /\ last'.udi = udi

\* C1: every live handle is the identity map's entry for its identifier, so
\* no identifier has two live handles; and a find of an identifier whose
\* handle is alive returns that handle, creates none, and asks no backend.
OneHandlePerIdentifier ==
    /\ \A id \in DOMAIN handles :
          /\ handles[id].udi # EmptyUdi
          /\ contains(m_devicesMap, handles[id].udi)
          /\ m_devicesMap[handles[id].udi] = id
    /\ \A udi \in DOMAIN m_devicesMap : m_devicesMap[udi] \in DOMAIN handles

FindReturnsLiveHandle ==
    (last'.op = "find" /\ contains(m_devicesMap, last'.udi))
        => /\ last'.id = m_devicesMap[last'.udi]
           /\ ~last'.created
           /\ last'.calls = 0
           /\ DOMAIN handles' = DOMAIN handles
           /\ m_devicesMap' = m_devicesMap
           /\ m_cache' = m_cache

C1_HandleIdentity == []OneHandlePerIdentifier /\ [][FindReturnsLiveHandle]_vars

C1_Witness ==
    /\ last.op = "find"
    /\ last.udi = D1
    /\ ~last.created
    /\ last.id \in DOMAIN handles
    /\ handles[last.id].ref = 2

\* The other identifiers' snapshots are what they were.
OthersUnchanged(udi) ==
    \A u \in (DOMAIN m_cache \cup DOMAIN m_cache') \ {udi} :
        contains(m_cache, u) /\ contains(m_cache', u) /\ m_cache'[u] = m_cache[u]

\* C2: an InterfacesRemoved for a tracked identifier that leaves at least
\* one interface emits "removed" then "added" for it and nothing else, and
\* keeps the entry with exactly the interfaces not named, unchanged.
PartialRemoval(udi, interfaces) ==
    /\ Step("InterfacesRemoved", udi)
    /\ contains(m_cache, udi)
    /\ DOMAIN m_cache[udi] \ interfaces # {}
    /\ InterfacesRemoved(udi, interfaces)

C2_PartialRemovalPairing ==
    [][\A udi \in EventUdis : \A interfaces \in RemovedSets :
          PartialRemoval(udi, interfaces)
              => /\ backendEmitted' = <<Removed(udi), Added(udi)>>
                 /\ contains(m_cache', udi)
                 /\ DOMAIN m_cache'[udi] = DOMAIN m_cache[udi] \ interfaces
                 /\ \A i \in DOMAIN m_cache'[udi] : m_cache'[udi][i] = m_cache[udi][i]
                 /\ OthersUnchanged(udi)]_vars

C2_Witness ==
    /\ last.op = "InterfacesRemoved"
    /\ last.udi = D1
    /\ backendEmitted = <<Removed(D1), Added(D1)>>
    /\ contains(m_cache, D1)
    /\ DOMAIN m_cache[D1] = {UD2_DBUS_INTERFACE_BLOCK}

\* C3 as stated: an InterfacesRemoved that empties a tracked identifier's
\* interface set emits exactly one "removed" and no "added" and deletes the
\* entry, and from then until the next "added" for the identifier every
\* find / createDevice for it yields a null backing object.
FullRemoval(udi, interfaces) ==
    /\ Step("InterfacesRemoved", udi)
    /\ contains(m_cache, udi)
    /\ DOMAIN m_cache[udi] \ interfaces = {}
    /\ InterfacesRemoved(udi, interfaces)

FullRemovalEffect ==
    \A udi \in RegistryUdis : \A interfaces \in RemovedSets :
        FullRemoval(udi, interfaces)
            => /\ backendEmitted' = <<Removed(udi)>>
               /\ ~contains(m_cache', udi)
               /\ OthersUnchanged(udi)
               /\ contains(m_devicesMap', udi) => handles'[m_devicesMap'[udi]].backendObject = "null"

C3_UnknownUntilAddEvent ==
    /\ [][FullRemovalEffect]_vars
    /\ [][\A udi \in removedNotReadded :
             ((Step("createDevice", udi) /\ CreateDevice(udi))
                 \/ (Step("find", udi) /\ udi \in FindUdis /\ Find(udi))) => last'.object = "null"]_vars

\* C3 as amended: the lookup resolves from the snapshot, null exactly when the
\* identifier has no entry after the lookup's own resync of an empty cache;
\* and an entry comes back by an "added" for it or by a resync only.
ResolvedFromSnapshot ==
    \A udi \in RegistryUdis :
        ((Step("createDevice", udi) /\ CreateDevice(udi))
            \/ (Step("find", udi) /\ last'.created /\ udi \in FindUdis /\ Find(udi)))
            => (last'.object = "null" <=> ~contains(m_cache', udi))

EntryComesBack ==
    \A udi \in RegistryUdis :
        (~contains(m_cache, udi) /\ contains(m_cache', udi))
            => \/ \E i \in 1..Len(backendEmitted') : backendEmitted'[i] = Added(udi)
               \/ last'.op \in {"allDevices", "find", "createDevice"} /\ last'.calls = 1

C3_FullRemoval ==
    /\ [][FullRemovalEffect]_vars
    /\ [][ResolvedFromSnapshot]_vars
    /\ [][EntryComesBack]_vars

\* A handle made for the identifier after its full removal, while another
\* device keeps the cache from resyncing: its backing object is null.
C3_Witness ==
    /\ last.op = "find"
    /\ last.udi = D1
    /\ last.created
    /\ last.object = "null"
    /\ D1 \in removedNotReadded
    /\ contains(m_cache, D2)

\* C4 as stated: an InterfacesAdded(i, m) emits exactly one "added"(i) when
\* i was untracked or m holds the Filesystem interface, and nothing otherwise.
AddRule(udi, m) ==
    backendEmitted' = IF ~contains(m_cache, udi) \/ contains(m, UD2_DBUS_INTERFACE_FILESYSTEM)
                          THEN <<Added(udi)>>
                          ELSE <<>>

C4_AddRuleEveryIdentifier ==
    [][\A udi \in EventUdis : \A m \in AddedMaps(udi) : (Step("InterfacesAdded", udi) /\ InterfacesAdded(udi, m)) => AddRule(udi, m)]_vars

\* C4 as amended: the rule holds for every identifier outside the jobs
\* subtree; an InterfacesAdded for a job object is ignored whole.
C4_AddRule ==
    [][\A udi \in EventUdis : \A m \in AddedMaps(udi) :
          (Step("InterfacesAdded", udi) /\ InterfacesAdded(udi, m))
              => IF startsWith(udi, UD2_DBUS_PATH_JOBS)
                     THEN backendEmitted' = <<>> /\ m_cache' = m_cache
                     ELSE AddRule(udi, m)]_vars

\* The second "added" of a two-stage appearance: Filesystem arrives on a
\* tracked identifier that already has Block.
C4_Witness ==
    /\ last.op = "InterfacesAdded"
    /\ last.udi = D1
    /\ last.known
    /\ backendEmitted = <<Added(D1)>>
    /\ DOMAIN m_cache[D1] = {UD2_DBUS_INTERFACE_BLOCK, UD2_DBUS_INTERFACE_FILESYSTEM}

\* C5 as stated: for a device matching the removable-media criteria, a
\* PropertiesChanged on Block that takes "Size" from 0 to non-zero emits
\* "added", and one that takes it from non-zero to 0 emits "removed" and
\* deletes the entry.  The size before is the cached one; an untracked
\* identifier counts as having had none.
SizeChange(udi, changed) ==
    /\ Step("PropertiesChanged", udi)
    /\ contains(changed, "Size")
    /\ \E invalidated \in InvalidatedSets(udi, UD2_DBUS_INTERFACE_BLOCK) :
          PropertiesChanged(udi, 3, UD2_DBUS_INTERFACE_BLOCK, changed, invalidated)

cachedSize(udi) ==
    LET block == value(value(m_cache, udi), UD2_DBUS_INTERFACE_BLOCK)
    IN  IF contains(block, "Size") THEN block["Size"] ELSE Invalid

Emits(events, e) == \E i \in 1..Len(events) : events[i] = e

C5_MediaHeuristicBySizeTransition ==
    [][\A udi \in EventUdis : \A changed \in ChangedMaps(udi, UD2_DBUS_INTERFACE_BLOCK) :
          (SizeChange(udi, changed) /\ mightBeOpticalDisc(udi))
              => /\ ((~contains(m_cache, udi) \/ cachedSize(udi) = U64(0)) /\ toULongLong(changed["Size"]) > 0)
                        => Emits(backendEmitted', Added(udi))
                 /\ (contains(m_cache, udi) /\ isValid(cachedSize(udi)) /\ cachedSize(udi) # U64(0)
                        /\ toULongLong(changed["Size"]) = 0)
                        => Emits(backendEmitted', Removed(udi)) /\ ~contains(m_cache', udi)]_vars

\* C5 as amended: what decides is whether the identifier is tracked, not the
\* size it had: a non-zero "Size" emits "added" exactly for an untracked
\* identifier, a zero "Size" emits "removed" and deletes the entry exactly
\* for a tracked one; a device that does not match gets neither.
C5_MediaHeuristic ==
    [][\A udi \in EventUdis : \A changed \in ChangedMaps(udi, UD2_DBUS_INTERFACE_BLOCK) :
          SizeChange(udi, changed)
              => /\ Emits(backendEmitted', Added(udi))
                        <=> (mightBeOpticalDisc(udi) /\ ~contains(m_cache, udi)
                                /\ toULongLong(changed["Size"]) > 0)
                 /\ Emits(backendEmitted', Removed(udi))
                        <=> (mightBeOpticalDisc(udi) /\ contains(m_cache, udi)
                                /\ toULongLong(changed["Size"]) = 0)
                 /\ Emits(backendEmitted', Added(udi)) => contains(m_cache', udi)
                 /\ Emits(backendEmitted', Removed(udi)) => ~contains(m_cache', udi)]_vars

\* Media removed from the tracked optical device: "removed", entry deleted.
C5_Witness ==
    /\ last.op = "PropertiesChanged"
    /\ last.udi = D1
    /\ last.known
    /\ Emits(backendEmitted, Removed(D1))
    /\ ~contains(m_cache, D1)

\* C6 as stated: a CachedOnly read makes no remote call and leaves the whole
\* cache unchanged, and returns the resolved value when one is cached for
\* the identifier and property name, an invalid value otherwise.
ReadUdis == {D1, D2}

resolvedValues(udi, name) ==
    {m_cache[udi][i][name] : i \in {h \in holders(value(m_cache, udi), name) : isValid(m_cache[udi][h][name])}}

CachedOnlyFrame ==
    /\ m_cache' = m_cache
    /\ last'.calls = 0
    /\ backendEmitted' = <<>>

C6_CachedOnlyReturnsAnyResolved ==
    [][\A udi \in ReadUdis : \A name \in PropertyNames :
          (Step("deviceProperty", udi) /\ last'.name = name /\ last'.mode = "CachedOnly"
              /\ DeviceProperty(udi, name, "CachedOnly"))
              => /\ CachedOnlyFrame
                 /\ IF resolvedValues(udi, name) # {}
                        THEN last'.result \in resolvedValues(udi, name)
                        ELSE last'.result = Invalid]_vars

\* C6 as amended: the value returned is the one of the first interface, in
\* the order of interface names, that holds the property name: that value
\* when it is resolved, an invalid value when it is unresolved (also when a
\* later interface holds a resolved value under the same name) or when no
\* interface holds the name.
C6_CachedOnly ==
    [][\A udi \in ReadUdis : \A name \in PropertyNames :
          (Step("deviceProperty", udi) /\ last'.name = name /\ last'.mode = "CachedOnly"
              /\ DeviceProperty(udi, name, "CachedOnly"))
              => /\ CachedOnlyFrame
                 /\ last'.result =
                        IF holders(value(m_cache, udi), name) = {} THEN Invalid
                        ELSE m_cache[udi][firstHolder(m_cache[udi], name)][name]]_vars

\* A CachedOnly read of a property that the snapshot holds unresolved.
C6_Witness ==
    /\ last.op = "deviceProperty"
    /\ last.mode = "CachedOnly"
    /\ last.udi = D1
    /\ last.name = "Size"
    /\ last.result = Invalid
    /\ last.calls = 0
    /\ contains(m_cache, D1)
    /\ contains(m_cache[D1], UD2_DBUS_INTERFACE_BLOCK)
    /\ contains(m_cache[D1][UD2_DBUS_INTERFACE_BLOCK], "Size")
    /\ m_cache[D1][UD2_DBUS_INTERFACE_BLOCK]["Size"] = Invalid

\* C7: a CachedOnly read that directly follows a FetchIfNeeded read of the
\* same identifier and property returns what the FetchIfNeeded read
\* returned, whether that read fetched, failed to, or had no need to.
JustRead(udi, name, mode) ==
    /\ last.op = "deviceProperty"
    /\ last.udi = udi
    /\ last.name = name
    /\ last.mode = mode

Reads(udi, name, mode) ==
    /\ Step("deviceProperty", udi)
    /\ last'.name = name
    /\ last'.mode = mode
    /\ DeviceProperty(udi, name, mode)

C7_FetchThenCached ==
    [][\A udi \in ReadUdis : \A name \in PropertyNames :
          (JustRead(udi, name, "FetchIfNeeded") /\ Reads(udi, name, "CachedOnly"))
              => last'.result = last.result]_vars

\* A FetchIfNeeded read that fetched a byte array and returned it sanitized;
\* the CachedOnly read is enabled in every state.
C7_Witness ==
    /\ JustRead(D1, "MountPoints", "FetchIfNeeded")
    /\ last.calls = 1
    /\ last.result = Str(0)

\* C8: after a FetchIfNeeded read whose remote resolve failed, the next
\* FetchIfNeeded read of the same identifier and property makes no remote
\* call and returns an invalid value.
C8_NegativeCaching ==
    [][\A udi \in ReadUdis : \A name \in PropertyNames :
          (JustRead(udi, name, "FetchIfNeeded") /\ last.calls = 1 /\ ~isValid(last.result)
              /\ Reads(udi, name, "FetchIfNeeded"))
              => last'.calls = 0 /\ last'.result = Invalid]_vars

\* C9: the registry emits to its subscribers exactly the backend's "added"
\* and "removed" signals of an operation, one for one and in their order,
\* whether or not the identity map holds a handle for the identifier.
IsDeviceEvent(e) == e.kind \in {"added", "removed"}

C9_Rebroadcast == notified = SelectSeq(backendEmitted, IsDeviceEvent)

\* A partial removal re-broadcast while a consumer holds the handle ...
C9_Witness ==
    /\ notified = <<Removed(D1), Added(D1)>>
    /\ contains(m_devicesMap, D1)

\* ... and an add re-broadcast for an identifier nobody has looked up.
C9_WitnessNoHandle ==
    /\ notified = <<Added(D2)>>
    /\ ~contains(m_devicesMap, D2)

\* C10: a query with a predicate string that does not parse to a valid
\* predicate returns the empty list whatever the parent identifier and the
\* backend's state: no backend is enumerated, no remote call is made, and
\* neither the cache nor any handle changes.
InvalidStrings == {predicate \in PredicateStrings : ~fromString(predicate).valid}

C10_InvalidPredicateString ==
    [][\A predicate \in InvalidStrings : \A parentUdi \in ParentUdis :
          (Step("listFromQuery", parentUdi) /\ last'.name = predicate /\ ListFromQuery(predicate, parentUdi))
              => /\ last'.list = <<>>
                 /\ last'.enumerated = 0
                 /\ last'.calls = 0
                 /\ UNCHANGED <<m_cache, handles, m_devicesMap, m_reverseMap>>]_vars

\* An invalid string queried below the root while the backend tracks both devices.
C10_Witness ==
    /\ last.op = "listFromQuery"
    /\ last.name \in InvalidStrings
    /\ last.udi = UD2_UDI_DISKS_PREFIX
    /\ DOMAIN m_cache = {D1, D2}
    /\ last.list = <<>>

\* C11: a find of a non-empty identifier that has no handle and resolves to
\* no backend object (no prefix matches, or the routed backend has no such
\* device) makes a handle with a null backing object and enters it in the
\* identity map; a find of an identifier whose handle has a null backing
\* object returns that handle, makes none, and leaves the object null.
NamedUdis == FindUdis \ {EmptyUdi}

UnresolvedFindMakesHandle ==
    \A udi \in NamedUdis :
        (Step("find", udi) /\ ~contains(m_devicesMap, udi) /\ last'.object = "null")
            => /\ last'.created
               /\ last'.id # NullDeviceId
               /\ last'.id \in DOMAIN handles'
               /\ handles'[last'.id].udi = udi
               /\ handles'[last'.id].backendObject = "null"
               /\ contains(m_devicesMap', udi)
               /\ m_devicesMap'[udi] = last'.id

NullHandleFoundAgain ==
    \A udi \in NamedUdis :
        (Step("find", udi) /\ contains(m_devicesMap, udi)
            /\ handles[m_devicesMap[udi]].backendObject = "null")
            => /\ last'.id = m_devicesMap[udi]
               /\ ~last'.created
               /\ m_devicesMap' = m_devicesMap
               /\ handles'[last'.id].backendObject = "null"
               /\ handles'[last'.id].ref = handles[last'.id].ref + 1

C11_UnresolvedFind == [][UnresolvedFindMakesHandle]_vars /\ [][NullHandleFoundAgain]_vars

\* The second find of an identifier no backend's prefix matches.
C11_Witness ==
    /\ last.op = "find"
    /\ last.udi = ForeignUdi
    /\ ~last.created
    /\ last.id \in DOMAIN handles
    /\ handles[last.id].backendObject = "null"
    /\ handles[last.id].ref = 2

\* C12 as stated: no identifier is twice in the list a query returns.
occurrences(list, udi) == Cardinality({i \in DOMAIN list : list[i] = udi})

C12_NoIdentifierTwice == \A udi \in RegistryUdis : occurrences(last.list, udi) <= 1

\* C12 as amended: the seen set is one backend's.  With the one backend no
\* identifier is twice in the list, under however many types it was
\* enumerated; with two backends an identifier is in the list at most once
\* for each backend that returned it.
C12_NoIdentifierTwicePerBackend ==
    \A udi \in RegistryUdis :
        /\ last.op \in {"listFromQuery", "listFromQueryPredicate"} => occurrences(last.list, udi) <= 1
        /\ last.op = "listFromQueryBackends" => occurrences(last.list, udi) <= 2

\* Both devices in the list once each, one of them enumerated under two types.
C12_Witness ==
    /\ last.op = "listFromQuery"
    /\ last.name = "IS Block OR IS StorageAccess"
    /\ last.enumerated = 2
    /\ DOMAIN value(m_cache, D1) = {UD2_DBUS_INTERFACE_BLOCK, UD2_DBUS_INTERFACE_FILESYSTEM}
    /\ last.list = <<D1, D2>>

ValidStrings == {predicate \in PredicateStrings : fromString(predicate).valid}

satisfies(cache, p, udi) ==
    IF p.all THEN \A type \in p.types : queryDeviceInterface(cache, udi, type)
    ELSE \E type \in p.types : queryDeviceInterface(cache, udi, type)

isCandidate(cache, p, parentUdi, udi) ==
    /\ contains(cache, udi)
    /\ \E type \in supportedInterfaces \cap p.types : queryDeviceInterface(cache, udi, type)
    /\ parentUdi # EmptyUdi => parentUdiOf(udi) = parentUdi

hadNullHandle(udi) ==
    contains(m_devicesMap, udi) /\ handles[m_devicesMap[udi]].backendObject = "null"

QueryResult(predicate, parentUdi) ==
    LET p == fromString(predicate)
        listed == {last'.list[i] : i \in DOMAIN last'.list}
    IN  /\ listed = {udi \in RegistryUdis :
                        /\ isCandidate(m_cache', p, parentUdi, udi)
                        /\ satisfies(m_cache', p, udi)
                        /\ ~hadNullHandle(udi)}
        /\ last'.enumerated = Cardinality(supportedInterfaces \cap p.types)
        /\ (\A udi \in DOMAIN m_cache' : ~satisfies(m_cache', p, udi)) => last'.list = <<>>

C14_QueryReturnsMatches ==
    [][\A predicate \in ValidStrings : \A parentUdi \in ParentUdis :
          (Step("listFromQuery", parentUdi) /\ last'.name = predicate /\ ListFromQuery(predicate, parentUdi))
              => QueryResult(predicate, parentUdi)]_vars

\* Two candidates of an AND predicate, of which the snapshot of one matches.
C14_Witness ==
    /\ last.op = "listFromQuery"
    /\ last.name = "IS Block AND IS StorageAccess"
    /\ last.enumerated = 2
    /\ DOMAIN m_cache = {D1, D2}
    /\ last.list = <<D1>>

sameHandle(udi) ==
    /\ contains(m_devicesMap, udi)
    /\ contains(m_devicesMap', udi)
    /\ m_devicesMap'[udi] = m_devicesMap[udi]
    /\ handles'[m_devicesMap'[udi]].udi = udi
    /\ handles'[m_devicesMap'[udi]].ref = handles[m_devicesMap[udi]].ref

InvalidatedOnRemove ==
    \A udi \in RegistryUdis :
        (contains(m_devicesMap, udi) /\ Emits(backendEmitted', Removed(udi)))
            => /\ sameHandle(udi)
               /\ ~Emits(backendEmitted', Added(udi)) => handles'[m_devicesMap'[udi]].backendObject = "null"

NullUntilAdded ==
    \A udi \in NamedUdis \cup RegistryUdis :
        (/\ contains(m_devicesMap, udi)
         /\ handles[m_devicesMap[udi]].backendObject = "null"
         /\ contains(m_devicesMap', udi)
         /\ handles'[m_devicesMap'[udi]].backendObject # "null")
            => Emits(backendEmitted', Added(udi))

C16_InvalidatedOnRemove == [][InvalidatedOnRemove]_vars /\ [][NullUntilAdded]_vars

\* A full removal of a device whose handle a consumer holds.
C16_Witness ==
    /\ last.op = "InterfacesRemoved"
    /\ backendEmitted = <<Removed(D1)>>
    /\ contains(m_devicesMap, D1)
    /\ handles[m_devicesMap[D1]].backendObject = "null"
    /\ handles[m_devicesMap[D1]].ref = 2
    /\ last.asserts

\* C17 as stated: a FetchIfNeeded read of a property of a tracked identifier
\* that no interface holds, like one of a property that is unresolved, makes
\* one remote call, stores the result and returns it.
needsFetch(udi, name) ==
    \/ holders(value(m_cache, udi), name) = {}
    \/ ~isValid(m_cache[udi][firstHolder(m_cache[udi], name)][name])

C17_MissingOrUnresolvedIsFetched ==
    [][\A udi \in ReadUdis : \A name \in PropertyNames :
          (contains(m_cache, udi) /\ needsFetch(udi, name) /\ Reads(udi, name, "FetchIfNeeded"))
              => /\ last'.calls = 1
                 /\ \E iface \in DOMAIN m_cache'[udi] :
                       contains(m_cache'[udi][iface], name) /\ m_cache'[udi][iface][name] = last'.result]_vars

\* C17 as amended: only a property that some interface holds is fetched.  A
\* FetchIfNeeded read of an unresolved property makes one remote call, stores
\* the result (invalid when the call failed) under the first interface that
\* holds the name, changes nothing else and returns what it stored; a read of
\* a resolved property returns it; a read of a property that no interface
\* holds makes no call, stores nothing and returns an invalid value.
exceptProperty(cache, udi, iface, name) ==
    [u \in DOMAIN cache |->
        [i \in DOMAIN cache[u] |->
            [n \in DOMAIN cache[u][i] \ (IF u = udi /\ i = iface THEN {name} ELSE {}) |-> cache[u][i][n]]]]

FetchIfNeededRead(udi, name) ==
    IF holders(value(m_cache, udi), name) = {}
        THEN last'.calls = 0 /\ m_cache' = m_cache /\ last'.result = Invalid
    ELSE LET iface == firstHolder(m_cache[udi], name)
         IN  IF isValid(m_cache[udi][iface][name])
                 THEN last'.calls = 0 /\ m_cache' = m_cache /\ last'.result = m_cache[udi][iface][name]
                 ELSE /\ last'.calls = 1
                      /\ m_cache'[udi][iface][name] = last'.result
                      /\ exceptProperty(m_cache', udi, iface, name) = exceptProperty(m_cache, udi, iface, name)

C17_FetchIfNeeded ==
    [][\A udi \in ReadUdis : \A name \in PropertyNames :
          Reads(udi, name, "FetchIfNeeded") => FetchIfNeededRead(udi, name)]_vars

\* A FetchIfNeeded read of a property that no interface of a tracked
\* identifier holds.
C17_Witness ==
    /\ JustRead(D1, "MountPoints", "FetchIfNeeded")
    /\ contains(m_cache, D1)
    /\ holders(m_cache[D1], "MountPoints") = {}
    /\ last.calls = 0
    /\ last.result = Invalid

\* C18: every identifier that has an entry in the property cache has at
\* least one interface in it.
C18_SnapshotNonEmpty == \A udi \in DOMAIN m_cache : DOMAIN m_cache[udi] # {}

\* C19 as stated: PropertiesChanged on a tracked identifier stores the
\* unresolved sentinel for each invalidated name and the supplied value for
\* each changed name under the interface (the supplied value wins for a name
\* in both), changes no other property, and emits one "changed" event that
\* carries exactly invalidated \cup keys(changed); on an untracked identifier
\* it stores nothing and emits no "changed" event.
ChangeStep(udi, iface, changed, invalidated) ==
    /\ Step("PropertiesChanged", udi)
    /\ PropertiesChanged(udi, 3, iface, changed, invalidated)

Properties(cache) ==
    UNION {UNION {{<<u, i, n>> : n \in DOMAIN cache[u][i]} : i \in DOMAIN cache[u]} : u \in DOMAIN cache}

StoredAs(cache, udi, iface, n, val) ==
    /\ <<udi, iface, n>> \in Properties(cache)
    /\ cache[udi][iface][n] = val

\* Every property but the named ones of udi's iface is as it was, and no
\* property but those has appeared.
OthersKept(udi, iface, names) ==
    /\ \A t \in Properties(m_cache) :
          (t[1] # udi \/ t[2] # iface \/ t[3] \notin names)
              => StoredAs(m_cache', t[1], t[2], t[3], m_cache[t[1]][t[2]][t[3]])
    /\ \A t \in Properties(m_cache') :
          t \in Properties(m_cache) \/ (t[1] = udi /\ t[2] = iface /\ t[3] \in names)

ChangedEvents(events) == {i \in 1..Len(events) : events[i].kind = "changed"}

C19_ChangedStoresAndEmits ==
    [][\A udi \in EventUdis : \A iface \in ChangedInterfaces(udi) :
       \A changed \in ChangedMaps(udi, iface) : \A invalidated \in InvalidatedSets(udi, iface) :
          ChangeStep(udi, iface, changed, invalidated)
              => IF contains(m_cache, udi)
                     THEN /\ \A n \in DOMAIN changed : StoredAs(m_cache', udi, iface, n, changed[n])
                          /\ \A n \in invalidated \ DOMAIN changed : StoredAs(m_cache', udi, iface, n, Invalid)
                          /\ OthersKept(udi, iface, invalidated \cup DOMAIN changed)
                          /\ Cardinality(ChangedEvents(backendEmitted')) = 1
                          /\ Emits(backendEmitted', Changed(udi, invalidated \cup DOMAIN changed))
                     ELSE /\ m_cache' = m_cache
                          /\ ChangedEvents(backendEmitted') = {}]_vars

\* C19 as amended: the value stored for a changed name is the supplied one
\* with byte arrays turned into strings; the "changed" event is emitted only
\* when invalidated \cup keys(changed) is not empty; and the media heuristic
\* runs after it: a zero "Size" on Block deletes the whole entry of a tracked
\* optical device once "changed" is out, a non-zero one creates an entry for
\* an untracked optical device.  Nothing else of the cache changes.
ZeroSizeOnOptical(udi, iface, changed) ==
    /\ mightBeOpticalDisc(udi)
    /\ iface = UD2_DBUS_INTERFACE_BLOCK
    /\ contains(changed, "Size")
    /\ toULongLong(changed["Size"]) = 0

NonZeroSizeOnOptical(udi, iface, changed) ==
    /\ mightBeOpticalDisc(udi)
    /\ iface = UD2_DBUS_INTERFACE_BLOCK
    /\ contains(changed, "Size")
    /\ toULongLong(changed["Size"]) > 0

C19_PropertiesChanged ==
    [][\A udi \in EventUdis : \A iface \in ChangedInterfaces(udi) :
       \A changed \in ChangedMaps(udi, iface) : \A invalidated \in InvalidatedSets(udi, iface) :
          ChangeStep(udi, iface, changed, invalidated)
              => LET names == invalidated \cup DOMAIN changed
                 IN  IF contains(m_cache, udi)
                         THEN /\ IF names = {} THEN ChangedEvents(backendEmitted') = {}
                                 ELSE /\ ChangedEvents(backendEmitted') = {1}
                                      /\ backendEmitted'[1] = Changed(udi, names)
                              /\ IF ZeroSizeOnOptical(udi, iface, changed)
                                     THEN m_cache' = remove(m_cache, udi)
                                     ELSE /\ \A n \in DOMAIN changed :
                                                StoredAs(m_cache', udi, iface, n, sanitizeValue(changed[n]))
                                          /\ \A n \in invalidated \ DOMAIN changed :
                                                StoredAs(m_cache', udi, iface, n, Invalid)
                                          /\ OthersKept(udi, iface, names)
                         ELSE /\ ChangedEvents(backendEmitted') = {}
                              /\ IF NonZeroSizeOnOptical(udi, iface, changed)
                                     THEN /\ DOMAIN m_cache' = DOMAIN m_cache \cup {udi}
                                          /\ \A other \in DOMAIN m_cache : m_cache'[other] = m_cache[other]
                                     ELSE m_cache' = m_cache]_vars

\* A change of the tracked D1 that invalidates "Size" and supplies
\* "MountPoints" on Filesystem: both are stored, "changed" carries both names.
C19_Witness ==
    /\ last.op = "PropertiesChanged"
    /\ last.udi = D1
    /\ backendEmitted = <<Changed(D1, {"Size", "MountPoints"})>>
    /\ StoredAs(m_cache, D1, UD2_DBUS_INTERFACE_FILESYSTEM, "Size", Invalid)
    /\ StoredAs(m_cache, D1, UD2_DBUS_INTERFACE_FILESYSTEM, "MountPoints", Str(0))

\* C20: in the re-fetch step of InterfacesAdded, an interface whose GetAll
\* fails keeps exactly the properties it had before the attempt (those of the
\* signal if the signal carried it, the cached ones otherwise); every other
\* previously known interface holds what its GetAll returned, every interface
\* of the signal that was not known holds the signal's properties; Block is
\* never fetched; and "added" is emitted by the same rule whatever fails.
\* The step is the event with these replies: last records which have failed.
RefetchStep(udi, interfaces_and_properties, replies) ==
    /\ Step("InterfacesAdded", udi)
    /\ last'.failed = {i \in DOMAIN replies : ~replies[i].valid}
    /\ BackendEvent("InterfacesAdded", udi,
                    slotInterfacesAdded(m_cache, udi, interfaces_and_properties, replies))

RepliesFor(udi) ==
    {replies \in [oldInterfacesOf(m_cache, udi) -> UNION {GetAllReplies(i) : i \in oldInterfacesOf(m_cache, udi)}] :
        \A i \in DOMAIN replies : replies[i] \in GetAllReplies(i)}

\* What the snapshot of udi holds for an interface once the signal is merged.
beforeRefetch(udi, interfaces_and_properties, i) ==
    IF contains(interfaces_and_properties, i) /\ startsWith(i, UD2_DBUS_SERVICE)
        THEN sanitizeMap(interfaces_and_properties[i])
        ELSE m_cache[udi][i]

C20_FailedRefetchKeepsStale ==
    [][\A udi \in RegistryUdis : \A m \in LoopAddedMaps : \A replies \in RepliesFor(udi) :
          RefetchStep(udi, m, replies)
              => LET known == DOMAIN value(m_cache, udi)
                     failed == {i \in DOMAIN replies : ~replies[i].valid}
                 IN  /\ DOMAIN m_cache'[udi] = known \cup DOMAIN m
                     /\ \A i \in failed : m_cache'[udi][i] = beforeRefetch(udi, m, i)
                     /\ \A i \in DOMAIN replies \ failed : m_cache'[udi][i] = sanitizeMap(replies[i].value)
                     /\ \A i \in DOMAIN m \ DOMAIN replies : m_cache'[udi][i] = sanitizeMap(m[i])
                     /\ UD2_DBUS_INTERFACE_BLOCK \notin DOMAIN replies
                     /\ (UD2_DBUS_INTERFACE_BLOCK \in known \ DOMAIN m)
                            => m_cache'[udi][UD2_DBUS_INTERFACE_BLOCK] = m_cache[udi][UD2_DBUS_INTERFACE_BLOCK]
                     /\ last'.calls = Cardinality(known \ {UD2_DBUS_INTERFACE_BLOCK})
                     /\ Emits(backendEmitted', Added(udi))
                            <=> (~contains(m_cache, udi) \/ contains(m, UD2_DBUS_INTERFACE_FILESYSTEM))]_vars

\* The GetAll of Filesystem has failed and the one of Loop has not: the
\* snapshot keeps the two Filesystem properties a signal brought (GetAll
\* returns one) and holds the Loop properties GetAll returned; Block is as
\* it was and no call was made for it.
C20_Witness ==
    /\ last.op = "InterfacesAdded"
    /\ last.udi = D1
    /\ last.failed = {UD2_DBUS_INTERFACE_FILESYSTEM}
    /\ last.calls = 2
    /\ DOMAIN m_cache[D1] = {UD2_DBUS_INTERFACE_BLOCK, UD2_DBUS_INTERFACE_FILESYSTEM, UD2_DBUS_INTERFACE_LOOP}
    /\ m_cache[D1][UD2_DBUS_INTERFACE_FILESYSTEM] = ("Size" :> U64(MaxSize)) @@ ("MountPoints" :> Str(0))
    /\ m_cache[D1][UD2_DBUS_INTERFACE_LOOP] = ("BackingFile" :> Str(1))

\* C21: when the media-inserted pseudo-event fires for an untracked
\* identifier, the entry created for it holds exactly the changed properties
\* of the event under the Block interface and under no other key, so that
\* the identifier is reported as having the Block interface afterwards.
C21_InsertedSnapshotUnderBlock ==
    [][\A udi \in EventUdis : \A changed \in ChangedMaps(udi, UD2_DBUS_INTERFACE_BLOCK) :
          (SizeChange(udi, changed) /\ ~contains(m_cache, udi) /\ Emits(backendEmitted', Added(udi)))
              => /\ contains(m_cache', udi)
                 /\ DOMAIN m_cache'[udi] = {UD2_DBUS_INTERFACE_BLOCK}
                 /\ m_cache'[udi][UD2_DBUS_INTERFACE_BLOCK] = changed
                 /\ hasInterface(m_cache', NoReply, udi, UD2_DBUS_INTERFACE_BLOCK).result]_vars

\* C22: a handle is destroyed, and leaves the identity map, only when no
\* consumer references it any more and the backend has reported its device
\* removed; no operation, the registry's teardown included, destroys a handle
\* that a consumer still references.  A handle's count is the number of its
\* consumers; a release takes one of them away, the teardown none.
Destroyed(id) == id \in DOMAIN handles /\ id \notin DOMAIN handles'

consumersLeft(id) ==
    IF last'.op = "release" /\ last'.id = id THEN handles[id].ref - 1 ELSE handles[id].ref

DestroyedUnreferenced == \A id \in HandleIds : Destroyed(id) => consumersLeft(id) = 0

DestroyedAfterRemoval == \A id \in HandleIds : Destroyed(id) => handles[id].udi \in removedNotReadded

C22_HandleLifetime == [][DestroyedUnreferenced /\ DestroyedAfterRemoval]_vars

\* C23: whenever the registry processes "removed" for an identifier that
\* has a handle in the identity map, the handle's backend object is not null
\* at that moment: the assertion before the null-out holds.  "removed" is the
\* first signal of deviceAdded and deviceRemoved a backend operation emits,
\* so the handle is then as it was before the operation.
C23_RemovedFindsObject ==
    [][\A udi \in RegistryUdis :
          (Emits(backendEmitted', Removed(udi)) /\ contains(m_devicesMap, udi))
              => /\ handles[m_devicesMap[udi]].backendObject # "null"
                 /\ last'.asserts]_vars

\* C24: a PropertiesChanged event never changes which interfaces the
\* snapshot of a tracked identifier contains, also when it names an interface
\* that is not in the snapshot; the media pseudo-events, which announce
\* themselves with "added" or "removed", are set apart.
C24_InterfaceSetKept ==
    [][\A udi \in EventUdis :
          (Step("PropertiesChanged", udi) /\ contains(m_cache, udi)
              /\ ~Emits(backendEmitted', Added(udi)) /\ ~Emits(backendEmitted', Removed(udi)))
              => /\ contains(m_cache', udi)
                 /\ DOMAIN m_cache'[udi] = DOMAIN m_cache[udi]]_vars

\* C25 as stated: hasInterface, allProperties, deviceProperties, createDevice
\* and devicesFromQuery leave the property cache unchanged and make no remote
\* call, in every reachable state, the one with an empty cache included.
ReadOps == {"hasInterface", "allProperties", "deviceProperties", "createDevice", "devicesFromQuery"}

ResyncedCaches == {allDevices(reply).cache : reply \in ManagedReplies}

ReadsRoot == last'.op = "createDevice" /\ last'.udi = UD2_UDI_DISKS_PREFIX

====
